---- MODULE Spec2Model ----
(***************************************************************************)
(* gcp_auth: the AuthenticationManager's token retrieval protocol          *)
(* (get_token, background_refresh), its discovery fallback (new) and the   *)
(* Token expiry rule, as a state machine.                                  *)
(*                                                                         *)
(* Time is in whole seconds.  A caller is one execution context that calls *)
(* get_token on the shared manager again and again; one scope set is used. *)
(***************************************************************************)
EXTENDS Integers, Sequences, FiniteSets

\* ------------------------------------------------------------ bounds
NumCallers == 2
MaxRefresh == 2
MaxSections == 3

\* The instants the clock is read at, in seconds, and the token lifetimes
\* (expires_in) a refresh may report.  Together they reach remaining
\* validities of 60, 59, 21 and 20 seconds: each side of both thresholds.
Instants == {0, 1, 2, 40}
Lifetimes == {20, 60}

\* ------------------------------------------------------------ program constants
ExpiryMargin == 20
RefreshAhead == 60

Callers == 1..NumCallers
Free == 0
BgOwner == NumCallers + 1

VARIABLES
    now,            \* SystemTime::now(), seconds
    cache,          \* the credential source's cached token (ServiceAccount::get_token)
    lockOwner,      \* refresh_mutex: Free, a caller, or BgOwner (an OwnedMutexGuard in a task)
    waitq,          \* refresh_mutex: callers queued in lock().await, first come first served
    pc,             \* each caller's position in get_token
    tok,            \* each caller's `token` of line 101
    rid,            \* the serial of the refresh_token call a caller awaits inline
    result,         \* what the caller's last get_token returned
    made,           \* refresh_token calls the caller's current invocation has made
                    \* inline, and background tasks it has spawned
    path,           \* the return statement the caller's last get_token left by
    bgTasks,        \* the spawned background_refresh tasks that have not ended
    refreshCalls,   \* refresh_token calls started so far
    overlap,        \* "none", or the callers' current invocations were all in flight
                    \* at one moment: "cold" if no unexpired token was cached when
                    \* the last of them began, "warm" otherwise
    base,           \* refreshCalls less the refreshes in flight when `overlap` arose
    disc,           \* AuthenticationManager::new: its position, the candidates it has
                    \* initialized, and its result
    env,            \* what each candidate's initializer yields in this environment
    decoded,        \* a Token decoded from a payload (types.rs), or NoToken
    seen,           \* the payload and clock `decoded` was decoded from, and the last
                    \* value an operation on it returned
    http,           \* HyperExt::deserialize: the response it is applied to and its result
    signer,         \* Signer::new: the PEM blob it is applied to and its result
    proj            \* project_id(): the position of a call and its result

vars == <<now, cache, lockOwner, waitq, pc, tok, rid, result, made,
          path, bgTasks, refreshCalls, overlap, base, disc, env,
          decoded, seen, http, signer, proj>>

mgrVars == <<now, cache, lockOwner, waitq, pc, tok, rid, result, made,
             path, bgTasks, refreshCalls, overlap, base>>
newVars == <<disc, env>>
typeVars == <<decoded, seen>>
libVars == <<decoded, seen, http, signer>>

\* ------------------------------------------------------------ Token
\* Option<Token>: None, or Some(token) with the refresh that produced it (id)
\* and its absolute expiry instant.
None == [some |-> FALSE, id |-> 0, expires_at |-> 0]
Some(i, e) == [some |-> TRUE, id |-> i, expires_at |-> e]

\* The 30s margin of has_expired's doc comment in place of the 20s of its body.
has_expired_30(token, t) == token.expires_at - 30 <= t

\* Token::has_expired at clock t: expires_at - 20s <= now
has_expired(token, t) == token.expires_at - ExpiryMargin <= t

\* expires_at().duration_since(now).unwrap_or_default(): zero when in the past
valid_for(token, t) == IF token.expires_at >= t THEN token.expires_at - t ELSE 0

\* A filter that keeps any cached token, expired or not.
some_token(token, t) == token.some

\* token.filter(|token| !token.has_expired()) is Some
unexpired(token, t) == token.some /\ ~has_expired(token, t)

\* deserialize_time / Token::from_string: expires_at = now + expires_in
deserialize_time(t, seconds_from_now) == t + seconds_from_now

\* Result<Token, Error> of get_token; an error carries the serial of the
\* refresh_token call that failed.
NoResult == [kind |-> "none", id |-> 0, expires_at |-> 0]
Ok(token) == [kind |-> "ok", id |-> token.id, expires_at |-> token.expires_at]
\* A failed refresh answered with whatever the cache holds.
ErrStale(r) == [kind |-> IF cache.some THEN "ok" ELSE "err", id |-> cache.id,
                expires_at |-> cache.expires_at]

Err(r) == [kind |-> "err", id |-> r, expires_at |-> 0]

\* ------------------------------------------------------------ refresh_mutex
\* A try_lock that takes the mutex whether or not it is held.
try_lock_always == TRUE

\* Mutex::try_lock_owned: Ok only when the mutex is neither held nor already
\* handed to a queued waiter.
try_lock_owned == lockOwner = Free

\* An unlock that wakes nobody: the mutex is left free with waiters queued.
ownerNoHandOff == Free

\* Dropping a guard: the mutex goes to the first queued waiter, if any.
ownerAfterUnlock == IF waitq = <<>> THEN Free ELSE Head(waitq)
queueAfterUnlock == IF waitq = <<>> THEN <<>> ELSE Tail(waitq)

\* An Acquire future dropped while queued leaves the queue.
RemoveWaiter(q, c) == SelectSeq(q, LAMBDA x : x # c)

\* ------------------------------------------------------------ observers
\* A spawned task: not polled yet, inside its refresh_token call (serial r)
\* with nothing stored, or with the token stored and its guard still held
\* (the call is returning or has returned, the task has not ended).
Spawned == [id |-> 0, at |-> "spawned"]
Running(r) == [id |-> r, at |-> "running"]
Logging(r) == [id |-> r, at |-> "logging"]

InFlightCallers == {c \in Callers : pc[c] \in {"refreshing", "stored"}}
\* refresh_token calls in flight: inline ones and background ones, each
\* counted from the call to the moment its guard is dropped
InFlight == Cardinality(InFlightCallers)
              + Cardinality({t \in bgTasks : t.at # "spawned"})
Returned(c) == pc[c] = "done"
Active(c) == pc[c] \notin {"idle", "done"}

\* ------------------------------------------------------------ get_token
\* Line 101: read the source's cache; a get_token invocation begins.
Peek(c) ==
    /\ pc[c] \in {"idle", "done"}
    /\ tok' = [tok EXCEPT ![c] = cache]
    /\ pc' = [pc EXCEPT ![c] = "read"]
    /\ result' = [result EXCEPT ![c] = NoResult]
    /\ made' = [made EXCEPT ![c] = 0]
    /\ path' = [path EXCEPT ![c] = "none"]
    /\ rid' = [rid EXCEPT ![c] = 0]
    /\ overlap' = IF \E d \in Callers \ {c} : ~Active(d) THEN "none"
                  ELSE IF unexpired(cache, now) THEN "warm" ELSE "cold"
    /\ base' = IF overlap' # "none" THEN refreshCalls - InFlight ELSE 0
    /\ UNCHANGED <<now, cache, lockOwner, waitq, bgTasks, refreshCalls>>

\* Line 103: token.filter(|token| !token.has_expired()) reads the clock, some
\* time after the cache was read; filter() consumes the Option, so the token
\* lives on only when it has not expired.
Filter(c) ==
    /\ pc[c] = "read"
    /\ tok' = [tok EXCEPT ![c] = IF unexpired(tok[c], now) THEN tok[c] ELSE None]
    /\ pc' = [pc EXCEPT ![c] = IF unexpired(tok[c], now) THEN "peeked" ELSE "inline"]
    /\ UNCHANGED <<now, cache, lockOwner, waitq, rid, result, made, path,
                   bgTasks, refreshCalls, overlap, base>>

\* The threshold test with <= for <.
expires_soon_le(c) == valid_for(tok[c], now) <= RefreshAhead

\* Line 108: the remaining validity, read at the clock of line 106, is below 60s.
expires_soon(c) == valid_for(tok[c], now) < RefreshAhead

\* Lines 104-123 when the token does not expire soon: return it.
ReturnFresh(c) ==
    /\ pc[c] = "peeked"
    /\ ~expires_soon(c)
    /\ result' = [result EXCEPT ![c] = Ok(tok[c])]
    /\ pc' = [pc EXCEPT ![c] = "done"]
    /\ path' = [path EXCEPT ![c] = "fresh"]
    /\ tok' = [tok EXCEPT ![c] = None]
    /\ UNCHANGED <<now, cache, lockOwner, waitq, rid, made,
                   bgTasks, refreshCalls, overlap, base>>

\* A near-expiry caller that waits for the mutex when it is held, instead of
\* giving up.
ReturnBusyWaits(c) ==
    /\ pc[c] = "peeked"
    /\ expires_soon(c)
    /\ ~try_lock_owned
    /\ waitq' = Append(waitq, c)
    /\ pc' = [pc EXCEPT ![c] = "waiting"]
    /\ UNCHANGED <<now, cache, lockOwner, tok, rid, result, made, path,
                   bgTasks, refreshCalls, overlap, base>>

\* Lines 104-123, try_lock_owned fails (112-114): return the token.
ReturnBusy(c) ==
    /\ pc[c] = "peeked"
    /\ expires_soon(c)
    /\ ~try_lock_owned
    /\ result' = [result EXCEPT ![c] = Ok(tok[c])]
    /\ pc' = [pc EXCEPT ![c] = "done"]
    /\ path' = [path EXCEPT ![c] = "busy"]
    /\ tok' = [tok EXCEPT ![c] = None]
    /\ UNCHANGED <<now, cache, lockOwner, waitq, rid, made,
                   bgTasks, refreshCalls, overlap, base>>

\* A near-expiry caller that awaits the refresh itself instead of spawning it.
ReturnSpawnAwaits(c) ==
    /\ pc[c] = "peeked"
    /\ expires_soon(c)
    /\ try_lock_owned
    /\ refreshCalls < MaxRefresh
    /\ lockOwner' = c
    /\ refreshCalls' = refreshCalls + 1
    /\ rid' = [rid EXCEPT ![c] = refreshCalls + 1]
    /\ made' = [made EXCEPT ![c] = @ + 1]
    /\ pc' = [pc EXCEPT ![c] = "refreshing"]
    /\ UNCHANGED <<now, cache, waitq, tok, result, path, bgTasks,
                   overlap, base>>

\* Lines 104-123, try_lock_owned succeeds (115-120): the guard moves into a
\* spawned task that will run background_refresh; return the token.  The
\* task runs when the runtime first polls it.
ReturnSpawn(c) ==
    /\ pc[c] = "peeked"
    /\ expires_soon(c)
    /\ try_lock_owned
    /\ refreshCalls < MaxRefresh
    /\ lockOwner' = BgOwner
    /\ bgTasks' = bgTasks \cup {Spawned}
    /\ UNCHANGED refreshCalls
    /\ made' = [made EXCEPT ![c] = @ + 1]
    /\ result' = [result EXCEPT ![c] = Ok(tok[c])]
    /\ pc' = [pc EXCEPT ![c] = "done"]
    /\ path' = [path EXCEPT ![c] = "spawn"]
    /\ tok' = [tok EXCEPT ![c] = None]
    /\ UNCHANGED <<now, cache, waitq, rid, overlap, base>>

\* The return step of a caller on the non-blocking path.
ReturnStep(c) == ReturnFresh(c) \/ ReturnBusy(c) \/ ReturnSpawn(c)

\* Lines 126-127: refresh_mutex.lock(), taken at once when free, queued otherwise.
LockRequest(c) ==
    /\ pc[c] = "inline"
    /\ IF lockOwner = Free
         THEN /\ lockOwner' = c
              /\ pc' = [pc EXCEPT ![c] = "locked"]
              /\ UNCHANGED waitq
         ELSE /\ waitq' = Append(waitq, c)
              /\ pc' = [pc EXCEPT ![c] = "waiting"]
              /\ UNCHANGED lockOwner
    /\ UNCHANGED <<now, cache, tok, rid, result, made, bgTasks,
                   refreshCalls, overlap, base, path>>

\* Line 127: lock().await completes for the waiter the mutex was handed to.
Granted(c) ==
    /\ pc[c] = "waiting"
    /\ lockOwner = c
    /\ pc' = [pc EXCEPT ![c] = "locked"]
    /\ UNCHANGED <<now, cache, lockOwner, waitq, tok, rid, result, made,
                   bgTasks, refreshCalls, overlap, base, path>>

\* A caller that calls refresh_token after the lock without looking at the
\* cache again.
RePeekSkipped(c) ==
    /\ pc[c] = "locked"
    /\ unexpired(cache, now)
    /\ refreshCalls < MaxRefresh
    /\ refreshCalls' = refreshCalls + 1
    /\ rid' = [rid EXCEPT ![c] = refreshCalls + 1]
    /\ made' = [made EXCEPT ![c] = @ + 1]
    /\ pc' = [pc EXCEPT ![c] = "refreshing"]
    /\ UNCHANGED <<now, cache, lockOwner, waitq, tok, result, bgTasks,
                   overlap, base, path>>

\* Lines 130-131: the re-peek under the lock finds a token that has not
\* expired.
RePeek(c) ==
    /\ pc[c] = "locked"
    /\ unexpired(cache, now)
    /\ tok' = [tok EXCEPT ![c] = cache]
    /\ pc' = [pc EXCEPT ![c] = "repeeked"]
    /\ UNCHANGED <<now, cache, lockOwner, waitq, rid, result, made, path,
                   bgTasks, refreshCalls, overlap, base>>

\* Lines 132-133: return the token the re-peek found; the guard is dropped
\* on return.
RePeekReturn(c) ==
    /\ pc[c] = "repeeked"
    /\ result' = [result EXCEPT ![c] = Ok(tok[c])]
    /\ pc' = [pc EXCEPT ![c] = "done"]
    /\ path' = [path EXCEPT ![c] = "repeek"]
    /\ tok' = [tok EXCEPT ![c] = None]
    /\ lockOwner' = ownerAfterUnlock
    /\ waitq' = queueAfterUnlock
    /\ UNCHANGED <<now, cache, rid, made, bgTasks, refreshCalls,
                   overlap, base>>

\* An inline refresh that starts whatever the re-peek finds.
RefreshStartAnyway(c) ==
    /\ pc[c] = "locked"
    /\ refreshCalls < MaxRefresh
    /\ refreshCalls' = refreshCalls + 1
    /\ rid' = [rid EXCEPT ![c] = refreshCalls + 1]
    /\ made' = [made EXCEPT ![c] = @ + 1]
    /\ pc' = [pc EXCEPT ![c] = "refreshing"]
    /\ UNCHANGED <<now, cache, lockOwner, waitq, tok, result, bgTasks,
                   overlap, base, path>>

\* Lines 130-138: the re-peek finds nothing usable; call refresh_token.
RefreshStart(c) ==
    /\ pc[c] = "locked"
    /\ ~unexpired(cache, now)
    /\ refreshCalls < MaxRefresh
    /\ refreshCalls' = refreshCalls + 1
    /\ rid' = [rid EXCEPT ![c] = refreshCalls + 1]
    /\ made' = [made EXCEPT ![c] = @ + 1]
    /\ pc' = [pc EXCEPT ![c] = "refreshing"]
    /\ UNCHANGED <<now, cache, lockOwner, waitq, tok, result, bgTasks,
                   overlap, base, path>>

\* ServiceAccount::refresh_token succeeding with a token that expires in
\* `life` seconds: the source stores the token and returns it.
stored(r, life) == Some(r, deserialize_time(now, life))

\* Inside the inline refresh_token call: the source stores the new token.
\* The call has not returned yet and the caller still holds the guard.
Refreshed(c, life) ==
    /\ pc[c] = "refreshing"
    /\ cache' = stored(rid[c], life)
    /\ tok' = [tok EXCEPT ![c] = stored(rid[c], life)]
    /\ pc' = [pc EXCEPT ![c] = "stored"]
    /\ UNCHANGED <<now, lockOwner, waitq, rid, result, made, path,
                   bgTasks, refreshCalls, overlap, base>>

\* Lines 135-139: the inline refresh_token call returns Ok(token); get_token
\* returns that result and drops the guard.
RefreshOk(c) ==
    /\ pc[c] = "stored"
    /\ result' = [result EXCEPT ![c] = Ok(tok[c])]
    /\ pc' = [pc EXCEPT ![c] = "done"]
    /\ path' = [path EXCEPT ![c] = "refresh"]
    /\ tok' = [tok EXCEPT ![c] = None]
    /\ rid' = [rid EXCEPT ![c] = 0]
    /\ lockOwner' = ownerAfterUnlock
    /\ waitq' = queueAfterUnlock
    /\ UNCHANGED <<now, cache, made, bgTasks, refreshCalls, overlap, base>>

\* An inline refresh that is called again when it fails.
RefreshErrRetries(c) ==
    /\ pc[c] = "refreshing"
    /\ refreshCalls < MaxRefresh
    /\ refreshCalls' = refreshCalls + 1
    /\ rid' = [rid EXCEPT ![c] = refreshCalls + 1]
    /\ made' = [made EXCEPT ![c] = @ + 1]
    /\ UNCHANGED <<now, cache, lockOwner, waitq, pc, tok, result, path,
                   bgTasks, overlap, base>>

\* Lines 135-139: the inline refresh_token call returns Err; get_token returns
\* that error and drops the guard.
RefreshErr(c) ==
    /\ pc[c] = "refreshing"
    /\ result' = [result EXCEPT ![c] = Err(rid[c])]
    /\ pc' = [pc EXCEPT ![c] = "done"]
    /\ path' = [path EXCEPT ![c] = "refresh"]
    /\ tok' = [tok EXCEPT ![c] = None]
    /\ rid' = [rid EXCEPT ![c] = 0]
    /\ lockOwner' = ownerAfterUnlock
    /\ waitq' = queueAfterUnlock
    /\ UNCHANGED <<now, cache, made, bgTasks, refreshCalls,
                   overlap, base>>

\* A cancellation in which the guard is leaked rather than dropped.
CancelLeaks(c) ==
    /\ pc[c] \in {"waiting", "refreshing"}
    /\ waitq' = RemoveWaiter(waitq, c)
    /\ pc' = [pc EXCEPT ![c] = "idle"]
    /\ tok' = [tok EXCEPT ![c] = None]
    /\ rid' = [rid EXCEPT ![c] = 0]
    /\ made' = [made EXCEPT ![c] = 0]
    /\ path' = [path EXCEPT ![c] = "none"]
    /\ overlap' = "none"
    /\ base' = 0
    /\ UNCHANGED <<now, cache, lockOwner, result, bgTasks, refreshCalls>>

\* The get_token future is dropped at one of its two await points: while
\* queued for (or just handed) the mutex, or while awaiting refresh_token.
\* Whatever guard it holds is dropped with it.
Cancel(c) ==
    /\ pc[c] \in {"waiting", "refreshing"}
    /\ IF pc[c] = "waiting" /\ lockOwner # c
         THEN /\ waitq' = RemoveWaiter(waitq, c)
              /\ UNCHANGED lockOwner
         ELSE /\ lockOwner' = ownerAfterUnlock
              /\ waitq' = queueAfterUnlock
    /\ pc' = [pc EXCEPT ![c] = "idle"]
    /\ tok' = [tok EXCEPT ![c] = None]
    /\ rid' = [rid EXCEPT ![c] = 0]
    /\ made' = [made EXCEPT ![c] = 0]
    /\ path' = [path EXCEPT ![c] = "none"]
    /\ overlap' = "none"
    /\ base' = 0
    /\ UNCHANGED <<now, cache, result, bgTasks, refreshCalls>>

\* ------------------------------------------------------------ background_refresh
\* Lines 146-151: the runtime polls the spawned task for the first time; it
\* logs and calls refresh_token.
BgStart ==
    /\ Spawned \in bgTasks
    /\ refreshCalls < MaxRefresh
    /\ refreshCalls' = refreshCalls + 1
    /\ bgTasks' = (bgTasks \ {Spawned}) \cup {Running(refreshCalls + 1)}
    /\ UNCHANGED <<now, cache, lockOwner, waitq, pc, tok, rid, result,
                   made, overlap, base, path>>

\* Line 151, inside refresh_token: the source stores the new token; the task
\* has its guard still.
BgRefreshed(t, life) ==
    /\ t \in bgTasks
    /\ t.at = "running"
    /\ cache' = stored(t.id, life)
    /\ bgTasks' = (bgTasks \ {t}) \cup {Logging(t.id)}
    /\ UNCHANGED <<now, lockOwner, waitq, pc, tok, rid, result, made,
                   refreshCalls, overlap, base, path>>

\* Lines 152-158, refresh_token returned Ok: the task logs and ends,
\* dropping its guard.
BgOk(t) ==
    /\ t \in bgTasks
    /\ t.at = "logging"
    /\ bgTasks' = bgTasks \ {t}
    /\ lockOwner' = ownerAfterUnlock
    /\ waitq' = queueAfterUnlock
    /\ UNCHANGED <<now, cache, pc, tok, rid, result, made, refreshCalls,
                   overlap, base, path>>

\* A failed background refresh that throws the cached token away.
BgErrClears(t) ==
    /\ t \in bgTasks
    /\ t.at = "running"
    /\ cache' = None
    /\ bgTasks' = bgTasks \ {t}
    /\ lockOwner' = ownerAfterUnlock
    /\ waitq' = queueAfterUnlock
    /\ UNCHANGED <<now, pc, tok, rid, result, made, path, refreshCalls,
                   overlap, base>>

\* Lines 152-158, refresh_token returned Err: the task logs and ends,
\* dropping its guard.
BgErr(t) ==
    /\ t \in bgTasks
    /\ t.at = "running"
    /\ bgTasks' = bgTasks \ {t}
    /\ lockOwner' = ownerAfterUnlock
    /\ waitq' = queueAfterUnlock
    /\ UNCHANGED <<now, cache, pc, tok, rid, result, made, refreshCalls,
                   overlap, base, path>>

\* ------------------------------------------------------------ the clock
\* SystemTime::now() only moves forward, to any later instant.
Tick(t) ==
    /\ t > now
    /\ now' = t
    /\ UNCHANGED <<cache, lockOwner, waitq, pc, tok, rid, result, made,
                   bgTasks, refreshCalls, overlap, base, path>>

\* ------------------------------------------------------------ new (discovery)
\* The candidates in the order new() initializes them.
Order == <<"CustomServiceAccount", "ConfigDefaultCredentials",
           "MetadataServiceAccount", "GCloudAuthorizedUser">>

\* The errors an initializer may fail with.
ErrKinds == {"errA", "errB"}

\* What the environment makes each initializer return: from_env is
\* Ok(Some), Ok(None) or Err; the others are Ok or Err.
Envs == [from_env : {"some", "none"} \cup ErrKinds,
         config   : {"ok"} \cup ErrKinds,
         metadata : {"ok"} \cup ErrKinds,
         gcloud   : {"ok"} \cup ErrKinds]

Cause(who, e) == [from |-> who, err |-> e]

Start == [pc |-> "from_env", tried |-> <<>>, source |-> "none",
          error |-> "none", causes |-> <<>>]

\* Ok(Self::build(client, service_account)) / Ok(service_account.into())
build(d, who) == [d EXCEPT !.pc = "built", !.tried = Append(@, who), !.source = who]

\* An initializer failed and new() goes on to the candidate at `next`.
fall_through(d, who, e, next) ==
    [d EXCEPT !.pc = next, !.tried = Append(@, who),
              !.causes = Append(@, Cause(who, e))]

\* Lines 53-55: CustomServiceAccount::from_env()?
TryFromEnv ==
    /\ disc.pc = "from_env"
    /\ disc' = CASE env.from_env = "some" -> build(disc, Order[1])
                 [] env.from_env = "none" ->
                      [disc EXCEPT !.pc = "config", !.tried = Append(@, Order[1])]
                 [] OTHER ->
                      [disc EXCEPT !.pc = "failed", !.tried = Append(@, Order[1]),
                                   !.error = env.from_env]
    /\ UNCHANGED env

\* Lines 57-64: ConfigDefaultCredentials::new(&client)
TryConfigDefault ==
    /\ disc.pc = "config"
    /\ disc' = IF env.config = "ok"
                 THEN build(disc, Order[2])
                 ELSE fall_through(disc, Order[2], env.config, "metadata")
    /\ UNCHANGED env

\* Lines 66-72: MetadataServiceAccount::new(&client)
TryMetadata ==
    /\ disc.pc = "metadata"
    /\ disc' = IF env.metadata = "ok"
                 THEN build(disc, Order[3])
                 ELSE fall_through(disc, Order[3], env.metadata, "gcloud")
    /\ UNCHANGED env

\* Error::NoAuthMethod(gcloud_error, default_service_error, default_user_error)
NoAuthMethod(gcloud_error, default_service_error, default_user_error) ==
    <<gcloud_error, default_service_error, default_user_error>>

\* Lines 74-87: GCloudAuthorizedUser::new(), then the aggregate error
TryGCloud ==
    /\ disc.pc = "gcloud"
    /\ disc' = IF env.gcloud = "ok"
                 THEN build(disc, Order[4])
                 ELSE [disc EXCEPT
                         !.pc = "failed", !.tried = Append(@, Order[4]),
                         !.error = "NoAuthMethod",
                         !.causes = NoAuthMethod(Cause(Order[4], env.gcloud),
                                                 disc.causes[2], disc.causes[1])]
    /\ UNCHANGED env

\* ------------------------------------------------------------ Token, SecretString (types.rs)
\* Strings are sequences of characters.  The secrets tried: the empty
\* string, the test's "abc123", one longer than either placeholder, and two
\* that occur inside a placeholder.
EmptySecret == <<>>
Abc123 == <<"a", "b", "c", "1", "2", "3">>
LongSecret == <<"y", "a", "2", "9", ".", "a", "0", "A", "f", "H", "_", "6", "S", "M", "B">>
RedSecret == <<"r", "e", "d">>
StarSecret == <<"*", "*">>
Secrets == {EmptySecret, Abc123, LongSecret, RedSecret, StarSecret}

\* The expires_in values of the payloads tried; a negative one is not a u64.
ExpiresIn == {-1, 0, 21, 60, 100}

\* needle occurs in hay as a contiguous run (str::contains)
Contains(hay, needle) ==
    \E i \in 0..(Len(hay) - Len(needle)) : SubSeq(hay, i + 1, i + Len(needle)) = needle

NoToken == [ok |-> FALSE, access_token |-> <<>>, expires_at |-> 0]

\* A decoder that keeps expires_in as it is, without adding the clock.
deserialize_raw(access_token, expires_in, t) ==
    [ok |-> TRUE, access_token |-> access_token, expires_at |-> expires_in]

\* InnerToken's Deserialize at clock t: access_token is kept, expires_in goes
\* through deserialize_time; an expires_in that is not a u64 is an error.
InnerToken(access_token, expires_in, t) ==
    IF expires_in >= 0
      THEN [ok |-> TRUE, access_token |-> access_token,
            expires_at |-> deserialize_time(t, expires_in)]
      ELSE NoToken

\* Token::secret and Token::expires_at
secret(tk) == tk.access_token
expires_at(tk) == tk.expires_at

\* A rendering that prints the secret.
fmt_SecretString_plain(str) == str

\* impl Debug for SecretString: write_str("(redacted)")
fmt_SecretString(str) == <<"(", "r", "e", "d", "a", "c", "t", "e", "d", ")">>

\* A rendering of Token that shows the access token.
fmt_Token_plain(tk) ==
    [name |-> "Token", access_token |-> tk.access_token, expires_at |-> tk.expires_at]

\* impl Debug for Token: debug_struct("Token") with the fields access_token,
\* always "****", and expires_at.
fmt_Token(tk) ==
    [name |-> "Token", access_token |-> <<"*", "*", "*", "*">>,
     expires_at |-> tk.expires_at]

NotSeen == [access_token |-> <<>>, expires_in |-> 0, decoded_at |-> 0,
            op |-> "none", at |-> 0, val |-> 0]

\* The value an operation returned at the current clock.
Observed(name, v) == [seen EXCEPT !.op = name, !.at = now, !.val = v]

\* serde decodes a payload {access_token, expires_in} into a Token.
DeserializeToken(access_token, expires_in) ==
    /\ decoded' = InnerToken(access_token, expires_in, now)
    /\ seen' = [access_token |-> access_token, expires_in |-> expires_in,
                decoded_at |-> now, op |-> "decode", at |-> now,
                val |-> decoded'.ok]
    /\ UNCHANGED now

CallHasExpired ==
    /\ decoded.ok
    /\ seen' = Observed("has_expired", has_expired(decoded, now))
    /\ UNCHANGED <<decoded, now>>

CallSecret ==
    /\ decoded.ok
    /\ seen' = Observed("secret", secret(decoded))
    /\ UNCHANGED <<decoded, now>>

CallExpiresAt ==
    /\ decoded.ok
    /\ seen' = Observed("expires_at", expires_at(decoded))
    /\ UNCHANGED <<decoded, now>>

DebugToken ==
    /\ decoded.ok
    /\ seen' = Observed("debug_token", fmt_Token(decoded))
    /\ UNCHANGED <<decoded, now>>

DebugSecretString ==
    /\ decoded.ok
    /\ seen' = Observed("debug_secret", fmt_SecretString(decoded.access_token))
    /\ UNCHANGED <<decoded, now>>

\* The clock advances while a Token is held.
Elapse(t) ==
    /\ t > now
    /\ now' = t
    /\ UNCHANGED <<decoded, seen>>

\* ------------------------------------------------------------ HyperExt::deserialize (util.rs)
\* The status codes tried: each side of both ends of the success range, and
\* some common ones.
Statuses == {100, 199, 200, 201, 204, 299, 300, 301, 400, 404, 500, 503}

\* How reading the body ends: all of it arrives, or the transport fails with
\* one of these messages.
ReadErrors == {"connection reset", "incomplete message"}
ReadOutcomes == {"ok"} \cup ReadErrors

\* The bodies tried: JSON of the target type, JSON of another shape, text
\* that is not JSON, and nothing.
Bodies == {[text |-> "{\"access_token\":...}", json |-> TRUE, fits |-> TRUE],
           [text |-> "{\"error\":...}", json |-> TRUE, fits |-> FALSE],
           [text |-> "<html>", json |-> FALSE, fits |-> FALSE],
           [text |-> "", json |-> FALSE, fits |-> FALSE]}

NoBody == [text |-> "", json |-> FALSE, fits |-> FALSE]
NoOutcome == [kind |-> "none", detail |-> <<>>]
NoResponse == [pc |-> "none", status |-> 0, read |-> "none", body |-> NoBody,
               result |-> NoOutcome]

\* StatusCode::is_success: 200 <= code < 300
is_success(status) == status >= 200 /\ status < 300

\* serde_json::from_slice::<T>: Ok only for JSON of the target type
from_slice(body) == body.json /\ body.fits

ConnectionError(message) == [kind |-> "ConnectionError", detail |-> <<message>>]
ServerUnavailable(status) ==
    [kind |-> "ServerUnavailable", detail |-> <<"Server responded with error ", status>>]
ParsingError == [kind |-> "ParsingError", detail |-> <<>>]
Decoded(body) == [kind |-> "Ok", detail |-> <<body.text>>]

\* A response whose head has arrived is handed to deserialize (line 19).
Respond(status) ==
    /\ http.pc \in {"none", "done"}
    /\ http' = [NoResponse EXCEPT !.pc = "reading", !.status = status]

\* Lines 20-22: to_bytes(body).await; a failure ends deserialize with a
\* ConnectionError carrying the transport's message.
to_bytes(read, body) ==
    /\ http.pc = "reading"
    /\ http' = IF read = "ok"
                 THEN [http EXCEPT !.pc = "read", !.read = read, !.body = body]
                 ELSE [http EXCEPT !.pc = "done", !.read = read,
                                   !.result = ConnectionError(read)]

\* A decoder that tries the body before it looks at the status.
deserialize_body_first ==
    /\ http.pc = "read"
    /\ http' = [http EXCEPT
                  !.pc = "done",
                  !.result = IF from_slice(http.body) THEN Decoded(http.body)
                             ELSE IF ~is_success(http.status)
                                    THEN ServerUnavailable(http.status)
                                    ELSE ParsingError]

\* Lines 24-33: the status check, then the JSON decode.
deserialize ==
    /\ http.pc = "read"
    /\ http' = [http EXCEPT
                  !.pc = "done",
                  !.result = IF ~is_success(http.status)
                               THEN ServerUnavailable(http.status)
                               ELSE IF from_slice(http.body) THEN Decoded(http.body)
                                    ELSE ParsingError]

\* ------------------------------------------------------------ Signer::new (types.rs)
\* A PEM blob is a sequence of sections: a PKCS#8 private key that is an RSA
\* key RsaKeyPair accepts (two different ones), a PKCS#8 private key that is
\* not, a section of another kind, and a section that cannot be read.
Sections == {"rsa-A", "rsa-B", "not-rsa", "certificate", "broken"}
RECURSIVE Blobs(_)
Blobs(n) ==
    IF n = 0 THEN {<<>>}
    ELSE Blobs(n - 1) \cup {Append(pem, x) : pem \in Blobs(n - 1), x \in Sections}
PemBlobs == Blobs(MaxSections)

\* rustls_pemfile::pkcs8_private_keys: an error if a section cannot be read,
\* otherwise the PKCS#8 private keys in their order, other sections skipped.
pkcs8_private_keys(pem) ==
    IF \E i \in 1..Len(pem) : pem[i] = "broken"
      THEN [ok |-> FALSE, keys |-> <<>>]
      ELSE [ok |-> TRUE,
            keys |-> SelectSeq(pem, LAMBDA x : x \in {"rsa-A", "rsa-B", "not-rsa"})]

\* keys.truncate(1); keys.remove(0)
first_key(keys) == keys[1]

\* RsaKeyPair::from_pkcs8(&key) is Ok
from_pkcs8(key) == key \in {"rsa-A", "rsa-B"}

NoSigner == [kind |-> "none", key |-> "", message |-> ""]
SignerOk(key) == [kind |-> "Ok", key |-> key, message |-> ""]
SignerInit == [kind |-> "SignerInit", key |-> "", message |-> ""]

\* io::Error::new(io::ErrorKind::InvalidInput, message).into(): the Error
\* made from an io::Error, which keeps its message.
InvalidInput(message) == [kind |-> "io::Error(InvalidInput)", key |-> "", message |-> message]

\* Signer::new(pem)
Signer_new(pem) ==
    LET private_keys == pkcs8_private_keys(pem) IN
    IF private_keys.ok /\ private_keys.keys # <<>>
      THEN IF from_pkcs8(first_key(private_keys.keys))
             THEN SignerOk(first_key(private_keys.keys))
             ELSE SignerInit
      ELSE IF private_keys.ok
             THEN InvalidInput("Not enough private keys in PEM")
             ELSE InvalidInput("Error reading key from PEM")

NoPem == [pem |-> <<>>, result |-> NoSigner]

\* A signer is constructed from a PEM blob.
NewSigner(pem) == signer' = [pem |-> pem, result |-> Signer_new(pem)]

\* ------------------------------------------------------------ project_id
\* What the credential source's project_id may answer: a project, or its
\* error when it cannot determine one.
ProjectAnswers == {[kind |-> "ok", val |-> "my-project"],
                   [kind |-> "err", val |-> "no project id"]}

\* `answer` is what the source returned, `result` what project_id() returned.
NotAsked == [pc |-> "idle", answer |-> [kind |-> "none", val |-> ""],
             result |-> [kind |-> "none", val |-> ""]]

\* Line 164: project_id() calls the source's project_id and awaits it.
ProjectIdCall ==
    /\ proj.pc \in {"idle", "done"}
    /\ proj' = [NotAsked EXCEPT !.pc = "asking"]
    /\ UNCHANGED mgrVars

\* A project_id() that first waits for the refresh lock to be free.
ProjectIdAfterRefresh(r) ==
    /\ proj.pc = "asking"
    /\ lockOwner = Free
    /\ proj' = [pc |-> "done", answer |-> r, result |-> r]
    /\ UNCHANGED mgrVars

\* Line 164: the source answers r and project_id() returns it.
ProjectIdReturn(r) ==
    /\ proj.pc = "asking"
    /\ proj' = [pc |-> "done", answer |-> r, result |-> r]
    /\ UNCHANGED mgrVars

\* ------------------------------------------------------------ specification
\* After construction: the mutex is free (build, line 93) and the source's
\* cache is empty or holds the token the source fetched when it was created.
InitCache == {None} \cup {Some(0, deserialize_time(0, life)) : life \in Lifetimes}

Built == build(Start, Order[1])
BuiltEnv == [from_env |-> "some", config |-> "ok", metadata |-> "ok", gcloud |-> "ok"]

Init ==
    /\ now = 0
    /\ cache \in InitCache
    /\ lockOwner = Free
    /\ waitq = <<>>
    /\ pc = [c \in Callers |-> "idle"]
    /\ tok = [c \in Callers |-> None]
    /\ rid = [c \in Callers |-> 0]
    /\ result = [c \in Callers |-> NoResult]
    /\ made = [c \in Callers |-> 0]
    /\ path = [c \in Callers |-> "none"]
    /\ bgTasks = {}
    /\ refreshCalls = 0
    /\ overlap = "none"
    /\ base = 0
    /\ disc = Built
    /\ env = BuiltEnv
    /\ decoded = NoToken
    /\ seen = NotSeen
    /\ http = NoResponse
    /\ signer = NoPem
    /\ proj = NotAsked

Next ==
    \/ \E c \in Callers : Peek(c) /\ UNCHANGED <<newVars, libVars, proj>>
    \/ \E c \in Callers : Filter(c) /\ UNCHANGED <<newVars, libVars, proj>>
    \/ \E c \in Callers : ReturnFresh(c) /\ UNCHANGED <<newVars, libVars, proj>>
    \/ \E c \in Callers : ReturnBusy(c) /\ UNCHANGED <<newVars, libVars, proj>>
    \/ \E c \in Callers : ReturnSpawn(c) /\ UNCHANGED <<newVars, libVars, proj>>
    \/ \E c \in Callers : LockRequest(c) /\ UNCHANGED <<newVars, libVars, proj>>
    \/ \E c \in Callers : Granted(c) /\ UNCHANGED <<newVars, libVars, proj>>
    \/ \E c \in Callers : RePeek(c) /\ UNCHANGED <<newVars, libVars, proj>>
    \/ \E c \in Callers : RePeekReturn(c) /\ UNCHANGED <<newVars, libVars, proj>>
    \/ \E c \in Callers : RefreshStart(c) /\ UNCHANGED <<newVars, libVars, proj>>
    \/ \E c \in Callers : RefreshErr(c) /\ UNCHANGED <<newVars, libVars, proj>>
    \/ \E c \in Callers, life \in Lifetimes : Refreshed(c, life) /\ UNCHANGED <<newVars, libVars, proj>>
    \/ \E c \in Callers : RefreshOk(c) /\ UNCHANGED <<newVars, libVars, proj>>
    \/ \E c \in Callers : Cancel(c) /\ UNCHANGED <<newVars, libVars, proj>>
    \/ BgStart /\ UNCHANGED <<newVars, libVars, proj>>
    \/ \E t \in bgTasks : BgErr(t) /\ UNCHANGED <<newVars, libVars, proj>>
    \/ \E t \in bgTasks, life \in Lifetimes : BgRefreshed(t, life) /\ UNCHANGED <<newVars, libVars, proj>>
    \/ \E t \in bgTasks : BgOk(t) /\ UNCHANGED <<newVars, libVars, proj>>
    \/ \E t \in Instants : Tick(t) /\ UNCHANGED <<newVars, libVars, proj>>

Spec == Init /\ [][Next]_vars

\* ------------------------------------------------------------ fair scheduling
\* The other parts of the program, which the manager's steps leave alone.
elseVars == <<newVars, libVars, proj>>

\* An invocation begins only while the model's refresh budget still covers
\* one refresh_token call for every invocation under way, so that the bound
\* MaxRefresh never stops an invocation that has begun.
Budget ==
    refreshCalls + Cardinality(bgTasks \cap {Spawned})
                 + Cardinality({d \in Callers : Active(d) /\ made[d] = 0}) < MaxRefresh

\* The runtime keeps polling a ready task: a caller's next step in get_token,
\* the completion of a refresh_token call (it terminates), and the spawned
\* background task each happen eventually.  No invocation is cancelled.
CallerStep(c) ==
    \/ Filter(c)
    \/ ReturnStep(c)
    \/ LockRequest(c)
    \/ Granted(c)
    \/ RePeek(c)
    \/ RePeekReturn(c)
    \/ RefreshStart(c)
    \/ RefreshOk(c)
RefreshEnds(c) == RefreshErr(c) \/ \E life \in Lifetimes : Refreshed(c, life)
BgStep ==
    \/ BgStart
    \/ \E t \in bgTasks : BgErr(t) \/ BgOk(t) \/ \E life \in Lifetimes : BgRefreshed(t, life)

Fairness ==
    /\ \A c \in Callers : WF_vars(CallerStep(c) /\ UNCHANGED elseVars)
    /\ \A c \in Callers : WF_vars(RefreshEnds(c) /\ UNCHANGED elseVars)
    /\ WF_vars(BgStep /\ UNCHANGED elseVars)

NextFair ==
    \/ \E c \in Callers : Budget /\ Peek(c) /\ UNCHANGED elseVars
    \/ \E c \in Callers : Filter(c) /\ UNCHANGED elseVars
    \/ \E c \in Callers : ReturnFresh(c) /\ UNCHANGED elseVars
    \/ \E c \in Callers : ReturnBusy(c) /\ UNCHANGED elseVars
    \/ \E c \in Callers : ReturnSpawn(c) /\ UNCHANGED elseVars
    \/ \E c \in Callers : LockRequest(c) /\ UNCHANGED elseVars
    \/ \E c \in Callers : Granted(c) /\ UNCHANGED elseVars
    \/ \E c \in Callers : RePeek(c) /\ UNCHANGED elseVars
    \/ \E c \in Callers : RePeekReturn(c) /\ UNCHANGED elseVars
    \/ \E c \in Callers : RefreshStart(c) /\ UNCHANGED elseVars
    \/ \E c \in Callers : RefreshErr(c) /\ UNCHANGED elseVars
    \/ \E c \in Callers, life \in Lifetimes : Refreshed(c, life) /\ UNCHANGED elseVars
    \/ \E c \in Callers : RefreshOk(c) /\ UNCHANGED elseVars
    \/ BgStart /\ UNCHANGED elseVars
    \/ \E t \in bgTasks : BgErr(t) /\ UNCHANGED elseVars
    \/ \E t \in bgTasks, life \in Lifetimes : BgRefreshed(t, life) /\ UNCHANGED elseVars
    \/ \E t \in bgTasks : BgOk(t) /\ UNCHANGED elseVars
    \/ \E t \in Instants : Tick(t) /\ UNCHANGED elseVars

SpecFair == Init /\ [][NextFair]_vars /\ Fairness

\* ------------------------------------------------------------ project_id beside get_token
\* project_id() is called while get_token invocations and refreshes run.
NextProject ==
    \/ \E c \in Callers : Budget /\ Peek(c) /\ UNCHANGED elseVars
    \/ \E c \in Callers : Filter(c) /\ UNCHANGED elseVars
    \/ \E c \in Callers : ReturnFresh(c) /\ UNCHANGED elseVars
    \/ \E c \in Callers : ReturnBusy(c) /\ UNCHANGED elseVars
    \/ \E c \in Callers : ReturnSpawn(c) /\ UNCHANGED elseVars
    \/ \E c \in Callers : LockRequest(c) /\ UNCHANGED elseVars
    \/ \E c \in Callers : Granted(c) /\ UNCHANGED elseVars
    \/ \E c \in Callers : RePeek(c) /\ UNCHANGED elseVars
    \/ \E c \in Callers : RePeekReturn(c) /\ UNCHANGED elseVars
    \/ \E c \in Callers : RefreshStart(c) /\ UNCHANGED elseVars
    \/ \E c \in Callers : RefreshErr(c) /\ UNCHANGED elseVars
    \/ \E c \in Callers, life \in Lifetimes : Refreshed(c, life) /\ UNCHANGED elseVars
    \/ \E c \in Callers : RefreshOk(c) /\ UNCHANGED elseVars
    \/ BgStart /\ UNCHANGED elseVars
    \/ \E t \in bgTasks : BgErr(t) /\ UNCHANGED elseVars
    \/ \E t \in bgTasks, life \in Lifetimes : BgRefreshed(t, life) /\ UNCHANGED elseVars
    \/ \E t \in bgTasks : BgOk(t) /\ UNCHANGED elseVars
    \/ \E t \in Instants : Tick(t) /\ UNCHANGED elseVars
    \/ ProjectIdCall /\ UNCHANGED <<newVars, libVars>>
    \/ \E r \in ProjectAnswers : ProjectIdReturn(r) /\ UNCHANGED <<newVars, libVars>>

SpecProject == Init /\ [][NextProject]_vars

\* Construction alone: new() run in every environment.
InitNew ==
    /\ now = 0
    /\ cache = None
    /\ lockOwner = Free
    /\ waitq = <<>>
    /\ pc = [c \in Callers |-> "idle"]
    /\ tok = [c \in Callers |-> None]
    /\ rid = [c \in Callers |-> 0]
    /\ result = [c \in Callers |-> NoResult]
    /\ made = [c \in Callers |-> 0]
    /\ path = [c \in Callers |-> "none"]
    /\ bgTasks = {}
    /\ refreshCalls = 0
    /\ overlap = "none"
    /\ base = 0
    /\ disc = Start
    /\ env \in Envs
    /\ decoded = NoToken
    /\ seen = NotSeen
    /\ http = NoResponse
    /\ signer = NoPem
    /\ proj = NotAsked

NextNew ==
    \/ TryFromEnv /\ UNCHANGED <<mgrVars, libVars, proj>>
    \/ TryConfigDefault /\ UNCHANGED <<mgrVars, libVars, proj>>
    \/ TryMetadata /\ UNCHANGED <<mgrVars, libVars, proj>>
    \/ TryGCloud /\ UNCHANGED <<mgrVars, libVars, proj>>

SpecNew == InitNew /\ [][NextNew]_vars

\* Everything but the Token and the clock.
idleVars == <<cache, lockOwner, waitq, pc, tok, rid, result, made, path,
              bgTasks, refreshCalls, overlap, base, disc, env, http, signer, proj>>

\* A Token is decoded from a payload and used while the clock advances.
NextToken ==
    \/ \E s \in Secrets, n \in ExpiresIn : DeserializeToken(s, n) /\ UNCHANGED idleVars
    \/ CallHasExpired /\ UNCHANGED idleVars
    \/ CallSecret /\ UNCHANGED idleVars
    \/ CallExpiresAt /\ UNCHANGED idleVars
    \/ DebugToken /\ UNCHANGED idleVars
    \/ DebugSecretString /\ UNCHANGED idleVars
    \/ \E t \in Instants : Elapse(t) /\ UNCHANGED idleVars

SpecToken == Init /\ [][NextToken]_vars

\* Everything but the response being decoded.
notHttpVars == <<mgrVars, newVars, decoded, seen, signer, proj>>

\* Responses are decoded one after the other.
NextHttp ==
    \/ \E status \in Statuses : Respond(status) /\ UNCHANGED notHttpVars
    \/ \E read \in ReadOutcomes, body \in Bodies :
          to_bytes(read, body) /\ UNCHANGED notHttpVars
    \/ deserialize /\ UNCHANGED notHttpVars

SpecHttp == Init /\ [][NextHttp]_vars

\* Signers are constructed from one PEM blob after the other.
NextSigner ==
    \E pem \in PemBlobs :
        NewSigner(pem) /\ UNCHANGED <<mgrVars, newVars, decoded, seen, http, proj>>

SpecSigner == Init /\ [][NextSigner]_vars

\* ============================================================ claims

\* C1: in every reachable state at most one refresh_token call is in flight,
\* counting the inline refreshes of get_token callers and the background
\* refresh tasks together.
C1_SingleFlight == InFlight <= 1

\* A refresh is in flight while another caller is queued for the mutex.
C1_Witness == InFlight = 1 /\ \E c \in Callers : pc[c] = "waiting"

\* A step in which caller c's get_token begins: the cache read of line 101.
Peeks(c) == pc[c] \in {"idle", "done"} /\ pc'[c] \notin {"idle", "done"}

\* A step in which caller c tests the token it read (line 103).
Filters(c) == pc[c] = "read" /\ pc'[c] # "read"

\* A step in which caller c leaves the non-blocking path (lines 104-123).
LeavesPeeked(c) == pc[c] = "peeked" /\ pc'[c] # "peeked"

\* A step in which caller c's get_token returns, and one in which it returns Ok.
Returns(c) == pc[c] # "done" /\ pc'[c] = "done"
ReturnsOk(c) == Returns(c) /\ result'[c].kind = "ok"

\* C2 as stated: whenever get_token returns Ok(token), has_expired() is false
\* for that token at the moment it is returned, on every path.
C2_Original ==
    [][\A c \in Callers : ReturnsOk(c) => ~has_expired(result'[c], now')]_vars

\* C2 as amended: a token get_token returns from the cache had
\* has_expired() = false when this invocation tested it (at line 103 for the
\* direct path, some time after it was read from the cache at line 101 and
\* before it is returned without another test; at the re-peek of line 131,
\* likewise); a token returned by the inline refresh_token call is that
\* call's result unchanged, not tested at all.
C2_CheckedWhenTested ==
    [][\A c \in Callers :
          /\ Peeks(c) => (pc'[c] = "read" /\ tok'[c] = cache)
          /\ (Filters(c) /\ pc'[c] = "peeked") =>
                 /\ tok[c].some
                 /\ ~has_expired(tok[c], now)
                 /\ tok'[c] = tok[c]
          /\ (pc[c] = "locked" /\ pc'[c] = "repeeked") =>
                 /\ cache.some
                 /\ ~has_expired(cache, now)
                 /\ tok'[c] = cache
          /\ pc[c] \in {"peeked", "repeeked"} => tok'[c] \in {tok[c], None}
          /\ ReturnsOk(c) =>
                CASE pc[c] = "peeked" ->
                       /\ result'[c] = Ok(tok[c])
                       /\ tok[c].some
                  [] pc[c] = "repeeked" ->
                       /\ result'[c] = Ok(tok[c])
                       /\ tok[c].some
                       /\ tok[c] = cache
                  [] pc[c] = "stored" ->
                       /\ result'[c].id = rid[c]
                       /\ result'[c] = Ok(tok[c])
                       /\ result'[c] = Ok(cache')
                  [] OTHER -> FALSE]_vars

\* Two callers have returned Ok, one from the re-peek and one from its own
\* inline refresh, with the same token.
C2_Witness ==
    \E c, d \in Callers :
        /\ Returned(c) /\ path[c] = "repeek" /\ result[c].kind = "ok"
        /\ Returned(d) /\ path[d] = "refresh" /\ result[d] = result[c]

\* The callers' current invocations overlapped in time, all have returned,
\* and each left by one of the return statements in `paths`.
BurstDone(paths) ==
    overlap # "none" /\ \A c \in Callers : Returned(c) /\ path[c] \in paths

\* The same, for invocations that overlapped while no unexpired token was
\* cached.
ColdBurstDone ==
    overlap = "cold" /\ BurstDone({"repeek", "refresh"})

\* refresh_token calls in flight when the burst began or started during it.
BurstRefreshes == refreshCalls - base

\* C3 as stated: N concurrent get_token calls that find no valid token cached
\* cause exactly one refresh_token call, and each returns that one refresh's
\* token or that one refresh's error.
C3_Original ==
    ColdBurstDone =>
        /\ BurstRefreshes = 1
        /\ \A c \in Callers : result[c].id = base + 1

\* C3 as amended: N concurrent get_token calls that find no valid token
\* cached make their refresh_token calls one at a time and at most one each,
\* at least one refresh serves them; a call that refreshed returns the result
\* (token or error) of its own refresh, and a call that did not returns Ok
\* with the token its re-peek found, which a refresh had stored while the
\* call was under way, never an error; that token is not tested again and
\* may have expired by the time it is returned.  A refresh that fails, or
\* whose token has expired by the next re-peek, is followed by the next
\* caller's own refresh.
C3_OneRefreshEach ==
    ColdBurstDone =>
        /\ BurstRefreshes >= 1
        /\ \A c \in Callers :
              /\ made[c] = (IF path[c] = "refresh" THEN 1 ELSE 0)
              /\ path[c] = "refresh" => result[c].id \in (base + 1)..refreshCalls
              /\ path[c] = "repeek" =>
                    (result[c].kind = "ok" /\ result[c].id \in 1..refreshCalls)
        /\ \A c, d \in Callers :
              (c # d /\ path[c] = "refresh" /\ path[d] = "refresh")
                  => result[c].id # result[d].id

\* Every caller of a burst has returned and the first refresh failed: its
\* caller has the error, and another caller refreshed again.
C3_Witness ==
    /\ ColdBurstDone
    /\ BurstRefreshes = 2
    /\ \E c, d \in Callers :
          /\ result[c] = Err(base + 1)
          /\ result[d].kind = "ok" /\ result[d].id = base + 2

\* The remaining validity of the token caller c read, expires_at - now.
Remaining(c) == tok[c].expires_at - now

\* C4 as stated: N concurrent get_token calls made while the cached token has
\* remaining validity between 0s and 60s never take the blocking path, exactly
\* one of them starts a background refresh, and every call returns Ok with
\* the token it read.
C4_Original ==
    /\ [][\A c \in Callers :
            (Filters(c) /\ tok[c].some
                /\ Remaining(c) > 0 /\ Remaining(c) < RefreshAhead)
                => pc'[c] = "peeked"]_vars
    /\ [](BurstDone({"busy", "spawn"}) =>
            /\ Cardinality({c \in Callers : path[c] = "spawn"}) = 1
            /\ \A c \in Callers : result[c].kind = "ok")

\* C4 as amended: a get_token call takes the non-blocking path exactly when
\* the token it read has remaining validity above 20s when it is tested; if
\* it then computes a remaining validity below 60s it returns Ok with the
\* token it read without ever waiting on the refresh lock, and it spawns a
\* background refresh task exactly when its own try_lock finds the lock free,
\* whoever holds it otherwise (a background task or a caller on the blocking
\* path); the task makes its refresh_token call once the runtime polls it.
\* So N such concurrent calls start no background refresh when the lock is
\* held throughout, and more than one when a task spawned by one of them has
\* ended before a later one's try_lock; at most one background task exists
\* at any moment and no call spawns more than one.
C4_NearExpiry ==
    /\ [][\A c \in Callers :
            /\ Filters(c) =>
                 (pc'[c] = "peeked"
                     <=> (tok[c].some /\ Remaining(c) > ExpiryMargin))
            /\ LeavesPeeked(c) =>
                 /\ ReturnsOk(c)
                 /\ result'[c] = Ok(tok[c])
                 /\ valid_for(tok[c], now) < RefreshAhead =>
                       path'[c] = (IF lockOwner = Free THEN "spawn" ELSE "busy")
                 /\ path'[c] = "spawn" =>
                       /\ valid_for(tok[c], now) < RefreshAhead
                       /\ lockOwner = Free /\ bgTasks = {}
                       /\ lockOwner' = BgOwner /\ bgTasks' = {Spawned}
                       /\ refreshCalls' = refreshCalls
                       /\ made'[c] = 1
                 /\ path'[c] = "busy" =>
                       /\ valid_for(tok[c], now) < RefreshAhead
                       /\ lockOwner # Free
                       /\ made'[c] = 0
                       /\ UNCHANGED <<lockOwner, waitq, bgTasks, refreshCalls>>]_vars
    /\ [](Cardinality(bgTasks) <= 1)
    /\ [](BurstDone({"busy", "spawn"}) =>
            \A c \in Callers :
                /\ result[c].kind = "ok"
                /\ made[c] = (IF path[c] = "spawn" THEN 1 ELSE 0))

\* A burst of near-expiry calls has returned: one spawned the background
\* task, which has not ended, and the others found the lock taken.
C4_Witness ==
    /\ BurstDone({"busy", "spawn"})
    /\ Cardinality({c \in Callers : path[c] = "spawn"}) = 1
    /\ Cardinality({c \in Callers : path[c] = "busy"}) = NumCallers - 1
    /\ Cardinality(bgTasks) = 1

\* C5: a get_token call that finds the cached token unexpired and computes a
\* remaining validity (valid_for, line 104) of at least 60s returns the peeked
\* token and, from its peek to its return, starts no refresh, spawns no task,
\* does not touch the refresh lock and leaves the source's cache unchanged.
C5_FreshIsFrameOnly ==
    [][\A c \in Callers :
          /\ (Peeks(c) \/ Filters(c)) =>
                UNCHANGED <<cache, lockOwner, waitq, bgTasks, refreshCalls>>
          /\ (LeavesPeeked(c) /\ valid_for(tok[c], now) >= RefreshAhead) =>
                /\ ReturnsOk(c)
                /\ result'[c] = Ok(tok[c])
                /\ path'[c] = "fresh"
                /\ made'[c] = 0
                /\ UNCHANGED <<cache, lockOwner, waitq, bgTasks, refreshCalls>>]_vars

\* A call returned a token with exactly 60s left while another caller held
\* the refresh lock.
C5_Witness ==
    \E c \in Callers :
        /\ Returned(c) /\ path[c] = "fresh" /\ result[c].kind = "ok"
        /\ result[c].expires_at - now = RefreshAhead
        /\ made[c] = 0
        /\ lockOwner \in Callers \ {c}

\* C6: a get_token call whose peek yields an unexpired token never waits on
\* the refresh lock and never awaits a refresh: whoever holds the lock, its
\* next step is possible at once (as long as the model lets one more refresh
\* start), that step returns Ok with the peeked token, and a background
\* task it spawns has not even been polled when it returns.
C6_NeverBlocks ==
    /\ [](\A c \in Callers :
            pc[c] = "peeked" =>
                /\ tok[c].some
                /\ refreshCalls < MaxRefresh => ENABLED ReturnStep(c))
    /\ [][\A c \in Callers :
            LeavesPeeked(c) =>
                /\ pc'[c] = "done"
                /\ result'[c] = Ok(tok[c])
                /\ path'[c] = "spawn" =>
                      (Spawned \in bgTasks' /\ lockOwner' = BgOwner)]_vars

\* A call returned the cached token while another caller was in the middle
\* of an inline refresh, holding the lock.
C6_Witness ==
    \E c, d \in Callers :
        /\ Returned(c) /\ path[c] = "busy" /\ result[c].kind = "ok"
        /\ pc[d] = "refreshing" /\ lockOwner = d

\* C7: on the blocking path a get_token invocation that still finds no valid
\* token after acquiring the lock makes exactly one refresh_token call and
\* returns its result unchanged; on failure the error is returned with no
\* further call and the caller no longer holds the lock (it is free, or
\* handed to the first waiter).  No invocation causes more than one call.
C7_OneCallNoRetry ==
    /\ [](\A c \in Callers : made[c] <= 1)
    /\ [][\A c \in Callers :
            /\ (pc[c] = "locked" /\ pc'[c] # "locked" /\ ~unexpired(cache, now)) =>
                  /\ pc'[c] = "refreshing"
                  /\ refreshCalls' = refreshCalls + 1
                  /\ rid'[c] = refreshCalls'
                  /\ made[c] = 0 /\ made'[c] = 1
            /\ (pc[c] = "refreshing" /\ pc'[c] = "stored") =>
                  /\ cache'.some /\ cache'.id = rid[c]
                  /\ tok'[c] = cache'
                  /\ refreshCalls' = refreshCalls
                  /\ lockOwner' = c
            /\ (pc[c] \in {"refreshing", "stored"} /\ Returns(c)) =>
                  /\ made'[c] = 1
                  /\ refreshCalls' = refreshCalls
                  /\ result'[c].id = rid[c]
                  /\ cache' = cache
                  /\ result'[c].kind = "ok" <=> pc[c] = "stored"
                  /\ result'[c].kind = "ok" => result'[c] = Ok(cache)
                  /\ lockOwner = c
                  /\ lockOwner' = IF waitq = <<>> THEN Free ELSE Head(waitq)]_vars

\* An inline refresh failed: its caller has the error after one call, and
\* the lock is free.
C7_Witness ==
    \E c \in Callers :
        /\ Returned(c) /\ path[c] = "refresh"
        /\ result[c].kind = "err" /\ result[c].id = refreshCalls
        /\ made[c] = 1
        /\ lockOwner = Free

\* A step in which a background refresh ends in failure: its task is gone
\* from inside its refresh_token call, before any token was stored.
BgFails ==
    \E t \in bgTasks :
        t.at = "running" /\ bgTasks' = bgTasks \ {t}

\* C8: a failed background refresh is invisible to callers.  It changes no
\* caller's state or result and leaves the cached token in place; a call that
\* reads a cached token and finds it unexpired returns Ok with it, whether or not it
\* spawned a refresh and however that refresh ends; the only error a call
\* returns is the one of its own inline refresh; once the cached token has
\* expired, a call takes the blocking path.
C8_BackgroundFailureInvisible ==
    [][/\ BgFails => UNCHANGED <<cache, pc, tok, result, made, path, refreshCalls>>
       /\ \A c \in Callers :
            /\ Peeks(c) => tok'[c] = cache
            /\ Filters(c) =>
                  IF unexpired(tok[c], now)
                    THEN pc'[c] = "peeked" /\ tok'[c] = tok[c]
                    ELSE pc'[c] = "inline"
            /\ LeavesPeeked(c) => (ReturnsOk(c) /\ result'[c] = Ok(tok[c]))
            /\ (Returns(c) /\ result'[c].kind = "err") =>
                  (pc[c] = "refreshing" /\ result'[c].id = rid[c])]_vars

\* Two background refreshes were spawned one after the other and both
\* failed: both spawners hold Ok with the token that is still cached.
C8_Witness ==
    \E c, d \in Callers :
        /\ c # d
        /\ Returned(c) /\ path[c] = "spawn" /\ result[c] = Ok(cache)
        /\ Returned(d) /\ path[d] = "spawn" /\ result[d] = Ok(cache)
        /\ cache.some
        /\ bgTasks = {} /\ refreshCalls = 2 /\ lockOwner = Free

\* The callers that hold, or have been handed, the refresh lock.
Holders == {c \in Callers : pc[c] \in {"locked", "repeeked", "refreshing", "stored"}
                              \/ (pc[c] = "waiting" /\ lockOwner = c)}

\* C9: the refresh lock is released when its holder finishes.  The lock is
\* held exactly when an inline caller holds it or a background task runs:
\* never held with neither in progress, never free while one is; a caller
\* that returns, or is cancelled, no longer holds it, and callers queue only
\* behind a held lock.
C9_LockReleased ==
    /\ [](/\ lockOwner = Free => (Holders = {} /\ bgTasks = {} /\ waitq = <<>>)
          /\ lockOwner = BgOwner => (Holders = {} /\ bgTasks # {})
          /\ lockOwner \in Callers => (Holders = {lockOwner} /\ bgTasks = {})
          /\ \A c \in Callers :
                (\E i \in 1..Len(waitq) : waitq[i] = c)
                    <=> (pc[c] = "waiting" /\ lockOwner # c))
    /\ [][\A c \in Callers :
            (pc[c] \in {"waiting", "locked", "repeeked", "refreshing", "stored"}
                /\ pc'[c] \in {"idle", "done"})
              => (lockOwner' # c /\ \A i \in 1..Len(waitq') : waitq'[i] # c)]_vars

\* An inline refresh was cancelled: a refresh_token call was started, no
\* caller is in flight or holds a result, nothing was stored, and the lock
\* is free again.
C9_Witness ==
    /\ refreshCalls >= 1
    /\ cache = None
    /\ bgTasks = {}
    /\ \A c \in Callers : pc[c] = "idle" /\ result[c] = NoResult
    /\ lockOwner = Free

\* ------------------------------------------------------------ discovery claims
\* Candidate k's initializer yields a credential source in this environment.
Succeeds(k) ==
    CASE k = 1 -> env.from_env = "some"
      [] k = 2 -> env.config = "ok"
      [] k = 3 -> env.metadata = "ok"
      [] k = 4 -> env.gcloud = "ok"

\* The candidates that succeed, and the first k candidates of the order.
Winners == {k \in 1..4 : Succeeds(k)}
FirstWinner == CHOOSE k \in Winners : \A j \in Winners : k <= j
Prefix(k) == SubSeq(Order, 1, k)

Finished == disc.pc \in {"built", "failed"}

\* C10: new() tries the four candidates in order and builds the manager
\* around the first that initializes successfully; a failure of any
\* candidate, the first included, leads to trying the next one.  The code
\* departs from this at line 53: an error from from_env() leaves new() through
\* the ? operator, so no later candidate is tried although one would succeed.
C10_Original ==
    Finished =>
        IF Winners # {}
          THEN /\ disc.pc = "built"
               /\ disc.source = Order[FirstWinner]
               /\ disc.tried = Prefix(FirstWinner)
          ELSE /\ disc.pc = "failed"
               /\ disc.tried = Order

\* C11: when every one of the four candidates fails, new() returns an
\* aggregate error that carries one failure cause per candidate, all four.
\* The code departs from this: Error::NoAuthMethod (lines 82-86) has three
\* places, none for the file-based key, and an error from from_env() (line
\* 53) is returned alone, with no aggregate at all.
C11_Original ==
    (disc.pc = "failed" /\ Winners = {}) =>
        /\ Len(disc.causes) = 4
        /\ \A k \in 1..4 : \E i \in 1..Len(disc.causes) : disc.causes[i].from = Order[k]

\* ------------------------------------------------------------ more get_token claims
\* C15: a caller on the blocking path looks at the cache again once it holds
\* the refresh lock; if an unexpired token is cached then (a concurrent inline
\* or background refresh stored it while the caller waited), the caller
\* returns that token, makes no refresh_token call and gives up the lock.
C15_DoubleCheck ==
    [][\A c \in Callers :
          /\ (pc[c] = "locked" /\ pc'[c] # "locked" /\ unexpired(cache, now)) =>
                /\ pc'[c] = "repeeked"
                /\ tok'[c] = cache
                /\ UNCHANGED <<cache, refreshCalls, bgTasks, lockOwner, made>>
          /\ (pc[c] = "repeeked" /\ pc'[c] # "repeeked") =>
                /\ ReturnsOk(c)
                /\ result'[c] = Ok(tok[c])
                /\ tok[c] = cache
                /\ path'[c] = "repeek"
                /\ made'[c] = 0
                /\ UNCHANGED <<cache, refreshCalls, bgTasks>>
                /\ lockOwner = c /\ lockOwner' # c]_vars

\* A caller queued behind a background refresh, was handed the lock when it
\* ended, and returned the token that refresh stored without refreshing.
C15_Witness ==
    \E c \in Callers :
        /\ Returned(c) /\ path[c] = "repeek" /\ made[c] = 0
        /\ result[c].kind = "ok" /\ result[c].id >= 1
        /\ result[c] = Ok(cache)
        /\ \A d \in Callers \ {c} : path[d] = "spawn"

\* A step that starts a refresh_token call, inline (line 135) or in a
\* spawned task at its first poll (line 151).
StartsRefresh == refreshCalls' = refreshCalls + 1

\* C16 as stated: no refresh_token call, inline or background, is started
\* while the cache holds a token with at least 60s of remaining validity; a
\* caller that peeked a near-expiry token before a concurrent refresh
\* completed starts no second refresh once that refresh has stored a fresh
\* token.
C16_Original ==
    [][StartsRefresh =>
          ~(cache.some /\ valid_for(cache, now) >= RefreshAhead)]_vars

\* C16 as amended: no refresh_token call is started while another is in
\* flight, and no inline refresh is started while the cache holds an unexpired
\* token (the re-peek under the lock sees every completed refresh).  A
\* background refresh task is spawned only by a caller whose own token, read
\* earlier, it computes to have less than 60s left, when its try_lock finds
\* the lock free; the task makes its refresh_token call when it is first
\* polled, and the cache is read again neither by the caller nor by the
\* task, so a caller that read a near-expiry token before a concurrent
\* refresh completed does start a second refresh after that refresh has
\* stored a fresh token.
C16_NoDuplicateUnderLock ==
    [][/\ StartsRefresh =>
            /\ InFlight = 0 /\ InFlight' = 1
            /\ \/ \E c \in Callers : pc[c] = "locked" /\ pc'[c] = "refreshing"
               \/ /\ bgTasks = {Spawned}
                  /\ bgTasks' = {Running(refreshCalls')}
                  /\ lockOwner = BgOwner
       /\ \A c \in Callers :
            /\ (pc[c] # "refreshing" /\ pc'[c] = "refreshing") =>
                  /\ StartsRefresh
                  /\ lockOwner = c
                  /\ ~unexpired(cache, now)
            /\ (Returns(c) /\ path'[c] = "spawn") =>
                  /\ bgTasks = {} /\ bgTasks' = {Spawned}
                  /\ lockOwner = Free
                  /\ tok[c].some
                  /\ valid_for(tok[c], now) < RefreshAhead]_vars

\* A caller spawned a background refresh on the strength of the token it had
\* read, and the task has started its refresh_token call, while the cache
\* already held a newer token with 60s left that an earlier refresh had
\* stored.
C16_Witness ==
    \E c \in Callers :
        /\ Returned(c) /\ path[c] = "spawn"
        /\ bgTasks = {Running(refreshCalls)}
        /\ cache.some /\ cache.id >= 1 /\ cache.id < refreshCalls
        /\ result[c].id < cache.id
        /\ valid_for(cache, now) >= RefreshAhead

\* C17: under fair scheduling, with every refresh_token call terminating and
\* no invocation cancelled, every get_token invocation that has begun
\* eventually returns a result, Ok or Err; no caller waits for the refresh
\* lock forever.
C17_EventuallyReturns ==
    \A c \in Callers :
        Active(c) ~> (Returned(c) /\ result[c].kind \in {"ok", "err"})

\* A caller is queued for the lock while another caller, holding it, awaits
\* its inline refresh.
C17_Witness ==
    /\ Len(waitq) = 1
    /\ bgTasks = {}
    /\ \E c, d \in Callers :
          /\ c # d
          /\ pc[c] = "waiting" /\ waitq = <<c>>
          /\ pc[d] = "refreshing" /\ lockOwner = d

\* C18: project_id() is a pass-through to the credential source.  It returns
\* what the source answered, value or error, unchanged; a step of it leaves
\* the refresh lock, its queue, the cache and every get_token invocation as
\* they are; and it never waits for the lock: whoever holds it, a call under
\* way can complete at once.
C18_PassThrough ==
    /\ [](/\ proj.pc = "done" => (proj.result = proj.answer
                                  /\ proj.result \in ProjectAnswers)
          /\ proj.pc = "asking" =>
                \A r \in ProjectAnswers : ENABLED ProjectIdReturn(r))
    /\ [][proj' # proj => UNCHANGED mgrVars]_vars

\* project_id() returned the source's error while a background refresh was
\* in flight and a get_token caller was queued for the lock.
C18_Witness ==
    /\ proj.pc = "done"
    /\ proj.result.kind = "err"
    /\ (\E t \in bgTasks : t.at = "running") /\ lockOwner = BgOwner
    /\ waitq # <<>>

\* ------------------------------------------------------------ Token claims
\* C12: has_expired() returns true if and only if now >= expires_at - 20s:
\* false at expires_at - 21s, true at expires_at - 20s and at every later time.
C12_ExpiryThreshold ==
    seen.op = "has_expired" =>
        /\ seen.val <=> (seen.at >= decoded.expires_at - 20)
        /\ seen.at = decoded.expires_at - 21 => seen.val = FALSE
        /\ seen.at >= decoded.expires_at - 20 => seen.val = TRUE

\* has_expired() was called exactly 20s before the expiry of a token decoded
\* earlier, and returned true.
C12_Witness ==
    /\ seen.op = "has_expired"
    /\ seen.val = TRUE
    /\ seen.at = decoded.expires_at - 20
    /\ seen.decoded_at < seen.at

\* C13: decoding a payload with access_token = s and expires_in = N yields a
\* Token whose secret() is s and whose expires_at() is the decode-time clock
\* plus N; expires_at() returns that same instant however much time has
\* passed when it is read, and no operation changes the Token.
C13_FixedAtDecodeTime ==
    decoded.ok =>
        /\ decoded.access_token = seen.access_token
        /\ decoded.expires_at = seen.decoded_at + seen.expires_in
        /\ seen.op = "secret" => seen.val = seen.access_token
        /\ seen.op = "expires_at" => seen.val = seen.decoded_at + seen.expires_in

\* The test's payload ("abc123", expires in 100) was decoded after the clock
\* had advanced, and expires_at() was read later still.
C13_Witness ==
    /\ decoded.ok
    /\ seen.access_token = Abc123 /\ seen.expires_in = 100
    /\ seen.decoded_at > 0
    /\ seen.op = "expires_at" /\ seen.at > seen.decoded_at
    /\ seen.val = seen.decoded_at + 100

\* C14 as stated: the Debug rendering of a SecretString never contains the
\* wrapped plaintext, whatever the string (the empty one and long ones
\* included), and the rendering of a SecretString and the access_token field
\* of a Token's rendering are the same for any two secrets.
C14_Original ==
    /\ seen.op = "debug_secret" =>
          /\ ~Contains(seen.val, decoded.access_token)
          /\ \A s \in Secrets : seen.val = fmt_SecretString(s)
    /\ seen.op = "debug_token" =>
          \A s \in Secrets :
              seen.val.access_token = fmt_Token([decoded EXCEPT !.access_token = s]).access_token

\* C14 as amended: the Debug rendering of a SecretString is the fixed text
\* "(redacted)" and the access_token field of a Token's rendering is the fixed
\* text "****", the same for any two secrets (the rest of the Token's
\* rendering depends on expires_at only).  So a rendering contains the
\* plaintext only when the plaintext happens to occur in the placeholder
\* itself, as the empty string and "red" do in "(redacted)"; it never
\* contains a secret that does not.
C14_FixedPlaceholder ==
    /\ seen.op = "debug_secret" =>
          /\ \A s \in Secrets : seen.val = fmt_SecretString(s)
          /\ Len(seen.val) = 10
          /\ Contains(seen.val, decoded.access_token)
                => decoded.access_token \in {EmptySecret, RedSecret}
    /\ seen.op = "debug_token" =>
          /\ \A s \in Secrets :
                seen.val = fmt_Token([decoded EXCEPT !.access_token = s])
          /\ seen.val.expires_at = decoded.expires_at
          /\ Len(seen.val.access_token) = 4
          /\ Contains(seen.val.access_token, decoded.access_token)
                => decoded.access_token \in {EmptySecret, StarSecret}

\* A SecretString longer than the placeholder was rendered.
C14_Witness ==
    /\ seen.op = "debug_secret"
    /\ decoded.access_token = LongSecret
    /\ Len(decoded.access_token) > Len(seen.val)
    /\ ~Contains(seen.val, decoded.access_token)

\* ------------------------------------------------------------ HTTP decoding claim
\* C19: for a completed exchange (the whole body was read) with a status
\* outside 200..299 the result is ServerUnavailable carrying the status,
\* never a connection or parsing error; with a success status the body is
\* decoded as JSON, and a decode failure yields ParsingError, which carries
\* nothing; ConnectionError results only from a transport failure, while the
\* body is read.
C19_DecodeContract ==
    http.pc = "done" =>
        /\ (http.read = "ok" /\ (http.status < 200 \/ http.status > 299)) =>
              /\ http.result.kind = "ServerUnavailable"
              /\ http.result.detail[2] = http.status
        /\ (http.read = "ok" /\ http.status >= 200 /\ http.status <= 299) =>
              IF http.body.json /\ http.body.fits
                THEN http.result = [kind |-> "Ok", detail |-> <<http.body.text>>]
                ELSE http.result = [kind |-> "ParsingError", detail |-> <<>>]
        /\ http.result.kind = "ConnectionError" <=> http.read \in ReadErrors
        /\ http.result.kind = "ConnectionError" => http.result.detail = <<http.read>>

\* A 404 whose body is JSON of the target type was answered with
\* ServerUnavailable.
C19_Witness ==
    /\ http.pc = "done"
    /\ http.status = 404
    /\ http.read = "ok" /\ http.body.json /\ http.body.fits
    /\ http.result.kind = "ServerUnavailable"

\* ------------------------------------------------------------ Signer claim
\* The PKCS#8 private keys of the PEM blob a signer was constructed from.
PemKeys == pkcs8_private_keys(signer.pem)

\* C20: Signer::new fails with SignerInit when the PEM blob holds no private
\* key, when it is malformed, and when its first key is not a key of the
\* expected type; with several keys only the first counts, for success and
\* for failure.
C20_SignerInitOnEveryFailure ==
    signer.result.kind # "none" =>
        IF PemKeys.ok /\ PemKeys.keys # <<>> /\ PemKeys.keys[1] \in {"rsa-A", "rsa-B"}
          THEN signer.result = [kind |-> "Ok", key |-> PemKeys.keys[1], message |-> ""]
          ELSE signer.result.kind = "SignerInit"

====
